---- MODULE Spec2Model ----
(***************************************************************************)
(* Verstka Node.js SDK: processing of one save callback.                   *)
(*                                                                         *)
(* VerstkaContentManager.save (src/src/content.ts) validates the callback, *)
(* allocates a staging path and calls downloadFiles                        *)
(* (src/unnamed/part_000), which fetches the manifest, creates the staging *)
(* directory, downloads every file through a p-limit gate, aggregates the  *)
(* outcomes and returns; save then invokes the caller's save handler.      *)
(*                                                                         *)
(* One step of the model is one turn of the event loop: a network or file  *)
(* system completion, or a timer, together with all the synchronous code   *)
(* and promise continuations that run before the next await on I/O.        *)
(***************************************************************************)
EXTENDS Integers, Sequences, FiniteSets, TLC

\* ------------------------------------------------------------------ bounds
\* Longest manifest the remote side returns.
MaxFiles == 3
\* Largest configured concurrency ceiling.
MaxConcurrency == 2

\* -------------------------------------------------------------- JS values
\* A JavaScript string that the code inspects character by character is a
\* sequence of one-character strings; Undefined is a missing property.
Undefined == <<"undefined">>
EmptyString == <<>>

\* !x for a string-or-undefined value x.
Falsy(x) == x = Undefined \/ x = EmptyString

\* s.startsWith('M')
StartsWithM(s) == Len(s) > 0 /\ s[1] = "M"

\* s.substring(1)
Substring1(s) == IF Len(s) = 0 THEN s ELSE SubSeq(s, 2, Len(s))

\* ------------------------------------------------------------------ inputs
DownloadUrl == <<"u">>
Art123 == <<"a", "r", "t", "1", "2", "3">>
Mart123 == <<"M", "a", "r", "t", "1", "2", "3">>
MMart == <<"M", "M", "a", "r", "t">>

\* The callbacks handed to save(): every way of lacking a required field,
\* and the desktop and mobile variants of a material.
Callbacks ==
    { [download_url |-> u, material_id |-> m, mobile |-> f] :
        u \in {Undefined, EmptyString},
        m \in {Art123},
        f \in {Undefined} }
    \cup
    { [download_url |-> DownloadUrl, material_id |-> m, mobile |-> Undefined] :
        m \in {Undefined, EmptyString} }
    \cup
    { [download_url |-> DownloadUrl, material_id |-> m, mobile |-> f] :
        m \in {Art123, Mart123},
        f \in {Undefined, <<"M">>} }
    \cup
    { [download_url |-> DownloadUrl, material_id |-> MMart, mobile |-> Undefined] }

\* File names by position, and "", the falsy name.
NameList == <<"a.png", "b.png", "c.png", "d.png", "e.png", "f.png">>

\* The manifests of length n the remote side returns: pairwise distinct
\* names, the first name listed again at the end, and an empty first name.
DistinctNames(n) == [i \in 1..n |-> NameList[i]]
ManifestsOfLength(n) ==
    {DistinctNames(n)}
        \cup (IF n >= 2 THEN {[DistinctNames(n) EXCEPT ![n] = NameList[1]]} ELSE {})
        \cup (IF n >= 1 THEN {[DistinctNames(n) EXCEPT ![1] = ""]} ELSE {})

Manifests == UNION { ManifestsOfLength(n) : n \in 0..MaxFiles }

\* HTTP statuses the remote side answers with, and their status texts.
HttpStatuses == {"200", "404"}
StatusText(s) == IF s = "200" THEN "OK" ELSE "Not Found"
\* response.ok
ResponseOk(s) == s = "200"

\* The parsed JSON bodies of the manifest endpoint. data is an array of
\* names, a non-array value, or missing.
NotAnArray == "not-an-array"
RmValues == {Undefined, EmptyString, <<"session expired">>}
ManifestBodies ==
    { [rc |-> c, rm |-> r, isArray |-> FALSE, data |-> <<>>, dataKind |-> k] :
        c \in {0, 1}, r \in RmValues, k \in {"missing", NotAnArray} }
    \cup
    { [rc |-> 0, rm |-> <<"session expired">>, isArray |-> TRUE, data |-> m,
       dataKind |-> "array"] : m \in Manifests }
    \cup
    { [rc |-> 1, rm |-> <<"ok">>, isArray |-> TRUE, data |-> m,
       dataKind |-> "array"] : m \in Manifests }

\* ------------------------------------------------------------------ errors
\* An Error is its message, a sequence of the pieces the code concatenates.
ValidationError == <<"Missing required parameters: download_url or material_id">>
HttpError_NoText(s) == <<"HTTP ", s>>
HttpError(s) == <<"HTTP ", s, ": ", StatusText(s)>>
InvalidResponse(rm) ==
    <<"Invalid response: ">> \o (IF Falsy(rm) THEN <<"Unknown error">> ELSE rm)
AbortError == <<"This operation was aborted">>
FetchFailed == <<"fetch failed">>
BodyError == <<"terminated">>
JsonError == <<"Unexpected end of JSON input">>
MkdirError == <<"EACCES: permission denied, mkdir">>
WriteError == <<"ENOSPC: no space left on device, write">>
IsDirError == <<"EISDIR: illegal operation on a directory, open">>
HandlerError == <<"save handler failed">>
NoError == <<>>

\* ------------------------------------------------------------------- paths
\* Date.now() and Math.random().toString(36).substring(2, 8) as seen by one
\* callback.
Timestamps == {<<"1730000000000">>}
RandomSuffixes == {<<"k3x9qz">>}

\* `${prefix}-${timestamp}-${randomSuffix}`: the pieces one after another.
DirName_NoRandom(prefix, timestamp, randomSuffix) ==
    prefix \o <<"-">> \o timestamp
DirName(prefix, timestamp, randomSuffix) ==
    prefix \o <<"-">> \o timestamp \o <<"-">> \o randomSuffix

\* A path under os.tmpdir(): the directory name and the segments below it.
\* Nothing is created on disk.
CreateTempDirectory(prefix, timestamp, randomSuffix) ==
    [dir |-> DirName(prefix, timestamp, randomSuffix), rel |-> <<>>]

\* The segments path.join splits a file name into at its separators; an
\* empty segment, such as the one before a leading separator, is dropped.
Segments(fileName) ==
    CASE fileName = "../b.png" -> <<"..", "b.png">>
      [] fileName = "sub/../c.png" -> <<"sub", "..", "c.png">>
      [] fileName = "/d.png" -> <<"d.png">>
      [] OTHER -> <<fileName>>

\* path.join normalises as it joins: a '..' segment takes the last segment
\* off the path, leaving the staging directory for os.tmpdir() when none
\* is left below it. A path is kept relative to os.tmpdir().
RECURSIVE ResolveSegments(_, _)
ResolveSegments(path, segments) ==
    IF segments = <<>> THEN path
    ELSE LET segment == Head(segments)
             next == IF segment # ".." THEN [path EXCEPT !.rel = Append(@, segment)]
                     ELSE IF path.rel # <<>> /\ path.rel[Len(path.rel)] # ".."
                          THEN [path EXCEPT !.rel = SubSeq(@, 1, Len(@) - 1)]
                     ELSE IF path.rel = <<>> /\ path.dir # <<>>
                          THEN [path EXCEPT !.dir = <<>>]
                     ELSE [path EXCEPT !.rel = Append(@, segment)]
         IN  ResolveSegments(next, Tail(segments))

\* path.join(tempDir, fileName): an empty segment adds nothing.
PathJoin(tempDir, fileName) ==
    IF fileName = "" THEN tempDir ELSE ResolveSegments(tempDir, Segments(fileName))

\* --------------------------------------------------------- callback fields
\* The guard of save(): !download_url || !material_id throws.
IsValidCallback_OnlyUrl(cb) == ~Falsy(cb.download_url)
IsValidCallback(cb) == ~(Falsy(cb.download_url) \/ Falsy(cb.material_id))

\* custom_fields?.mobile === 'M' || material_id.startsWith('M')
IsMobile(cb) == cb.mobile = <<"M">> \/ StartsWithM(cb.material_id)

\* material_id.startsWith('M') ? material_id.substring(1) : material_id
RECURSIVE CleanMaterialId_All(_)
CleanMaterialId_All(id) == IF StartsWithM(id) THEN CleanMaterialId_All(Substring1(id)) ELSE id
CleanMaterialId_Keep(id) == id
CleanMaterialId(id) == IF StartsWithM(id) THEN Substring1(id) ELSE id

\* { ...callbackData, material_id: cleanMaterialId }
EnrichedCallback_KnownFields(cb) ==
    [download_url |-> cb.download_url, material_id |-> CleanMaterialId(cb.material_id),
     mobile |-> cb.mobile]
EnrichedCallback(cb) == [cb EXCEPT !.material_id = CleanMaterialId(cb.material_id)]

\* ----------------------------------------------------------- manifest body
\* fileData.rc !== 1 || !Array.isArray(fileData.data) throws.
IsInvalidManifest_And(body) == body.rc # 1 /\ ~body.isArray
IsInvalidManifest(body) == body.rc # 1 \/ ~body.isArray

\* -------------------------------------------------------------- file units
\* One unit per manifest entry: limit(() => downloadSingleFile(...)).
\*   phase    queued | fetching | reading | writing | settled
\*   timer    unset | armed | cleared | fired    (the unit's setTimeout)
\*   aborted  the unit's fetch was rejected by its controller's abort
\*   requests number of fetches issued for the entry
\*   overdue  the timeout has elapsed since the unit was started while the
\*            unit was still unsettled
\*   thrown   the error thrown inside the unit's try block, or NoError
\*   status   fileResponse.status once the headers have arrived, or "none"
\*   outcome  the element of Promise.allSettled's result, or Pending
Pending == [status |-> "pending"]
QueuedUnit ==
    [phase |-> "queued", timer |-> "unset", aborted |-> FALSE, requests |-> 0,
     overdue |-> FALSE, thrown |-> NoError, status |-> "none", outcome |-> Pending]

Success(filePath) ==
    [status |-> "fulfilled", value |-> [success |-> TRUE, filePath |-> filePath]]

\* The catch block of downloadSingleFile: the error becomes a value.
CatchToFailure_Rethrow(message) == [status |-> "rejected", reason |-> message]
CatchToFailure(message) ==
    [status |-> "fulfilled", value |-> [success |-> FALSE, error |-> message]]

InFlightPhases == {"fetching", "reading", "writing"}
ActiveCount(us) == Cardinality({ i \in DOMAIN us : us[i].phase \in InFlightPhases })
Queued(us) == { i \in DOMAIN us : us[i].phase = "queued" }
HeadOfQueue(us) == CHOOSE i \in Queued(us) : \A j \in Queued(us) : i <= j

\* The unit starts: downloadSingleFile runs up to its await fetch, having
\* armed its timer.
StartUnit(u) ==
    [u EXCEPT !.phase = "fetching", !.timer = "armed", !.requests = @ + 1]

\* p-limit, on enqueue: activeCount < concurrency
CanStart_Always(us, c) == TRUE
CanStart(us, c) == ActiveCount(us) < c

\* limit(fn) for every manifest entry: each is queued, and queued entries
\* are started in order while the gate has room.
RECURSIVE Enqueue(_, _)
Enqueue(us, c) ==
    IF Queued(us) # {} /\ CanStart(us, c)
    THEN Enqueue([us EXCEPT ![HeadOfQueue(us)] = StartUnit(@)], c)
    ELSE us

\* p-limit's next(), run when a started unit's promise settles: the gate
\* is released and the head of the queue, if any, is started.
PLimitNext_WhenIdle(us) ==
    IF Queued(us) # {} /\ ActiveCount(us) = 0
    THEN [us EXCEPT ![HeadOfQueue(us)] = StartUnit(@)]
    ELSE us
PLimitNext(us) ==
    IF Queued(us) # {}
    THEN [us EXCEPT ![HeadOfQueue(us)] = StartUnit(@)]
    ELSE us

\* Unit i settles with outcome o, and p-limit moves on.
Settle_Racy(us, i, o) ==
    PLimitNext([us EXCEPT ![i].phase = "settled",
                          ![i].outcome = IF ActiveCount(us) > 1
                                         THEN CatchToFailure(<<"lost">>) ELSE o])
Settle(us, i, o) ==
    PLimitNext([us EXCEPT ![i].phase = "settled", ![i].outcome = o])

\* The unit's try block throws e: the catch block settles the unit.
Throw_Retry(us, i, e) ==
    IF us[i].requests < 2
    THEN [us EXCEPT ![i] = StartUnit(@)]
    ELSE Settle([us EXCEPT ![i].thrown = e], i, CatchToFailure(e))
Throw(us, i, e) ==
    Settle([us EXCEPT ![i].thrown = e], i, CatchToFailure(e))

\* Promise.allSettled(downloadPromises) resolves.
AllSettled_Any(us) == DOMAIN us = {} \/ \E i \in DOMAIN us : us[i].phase = "settled"
AllSettled(us) == \A i \in DOMAIN us : us[i].phase = "settled"

\* ------------------------------------------------------------- aggregation
EmptyResult == [fileMap |-> {}, failedFiles |-> <<>>]

\* fileMap[fileName] = filePath
SetEntry(fileMap, fileName, filePath) ==
    { e \in fileMap : e.fileName # fileName }
        \cup { [fileName |-> fileName, filePath |-> filePath] }

\* result.reason?.message || 'Unknown error'
ReasonMessage(result) ==
    IF result.status = "rejected" /\ result.reason # NoError
    THEN result.reason ELSE <<"Unknown error">>

\* One iteration of results.forEach((result, index) => ...).
ProcessOne_DropFailed(acc, fileName, result) ==
    IF fileName = "" THEN acc
    ELSE IF result.status = "fulfilled" /\ result.value.success
         THEN [acc EXCEPT !.fileMap = SetEntry(@, fileName, result.value.filePath)]
         ELSE acc
ProcessOne_Prepend(acc, fileName, result) ==
    IF fileName = "" THEN acc
    ELSE IF result.status = "fulfilled" /\ result.value.success
         THEN [acc EXCEPT !.fileMap = SetEntry(@, fileName, result.value.filePath)]
         ELSE [acc EXCEPT !.failedFiles =
                   <<[fileName |-> fileName, error |-> ReasonMessage(result)]>> \o @]
ProcessOne(acc, fileName, result) ==
    IF fileName = "" THEN acc
    ELSE IF result.status = "fulfilled"
         THEN IF result.value.success
              THEN [acc EXCEPT !.fileMap = SetEntry(@, fileName, result.value.filePath)]
              ELSE [acc EXCEPT !.failedFiles =
                        Append(@, [fileName |-> fileName, error |-> result.value.error])]
         ELSE [acc EXCEPT !.failedFiles =
                   Append(@, [fileName |-> fileName, error |-> ReasonMessage(result)])]

RECURSIVE ProcessFrom(_, _, _, _)
ProcessFrom(names, us, index, acc) ==
    IF index > Len(names) THEN acc
    ELSE ProcessFrom(names, us, index + 1,
                     ProcessOne(acc, names[index], us[index].outcome))

\* The { fileMap, failedFiles } downloadFiles returns.
ProcessResults(names, us) == ProcessFrom(names, us, 1, EmptyResult)

\* ------------------------------------------------------------------- state
VARIABLES
    callbackData,        \* the callback save() was called with
    concurrency,         \* the concurrency ceiling handed to downloadFiles
    pc,                  \* where save() stands
    tempDir,             \* the staging path save() allocated, or NoPath
    dirExists,           \* fs.mkdir(tempDir) has succeeded
    manifest,            \* the manifest request: none | requested | headers | fetched | failed
    manifestRequests,    \* number of manifest requests issued
    manifestTimer,       \* the manifest request's setTimeout
    fileData,            \* the parsed body of the manifest response, or NoBody
    fileNames,           \* fileData.data
    units,               \* the file units, by manifest index
    result,              \* what downloadFiles returned, or NoResult
    dlError,             \* the error downloadFiles rejected with, or NoError
    error,               \* the error save() rejected with, or NoError
    handlerInvocations,  \* the arguments of each call of saveHandler
    handlerThrown,       \* the error the save handler raised, or NoError
    auth,                \* VerstkaAuth: its keys, and the signatures made and checked
    staging,             \* createTempDirectory: the clock, the paths returned, the directories on disk
    settings,            \* the SDK options and what the client, save() and downloadFiles make of them
    logger,              \* VerstkaLogger: its config, the calls made and the console output
    instance,            \* one SDK instance processing several callbacks at a time
    editor,              \* getEditorUrl: its params, the form sent, the response and what it returned
    observer             \* what an onlooker of one callback notes: the files on disk,
                         \* the order of settlement, the manifest deadline

\* The state of one save() callback, and the state of the other parts of
\* the SDK.
saveVars == <<callbackData, concurrency, pc, tempDir, dirExists, manifest,
              manifestRequests, manifestTimer, fileData, fileNames, units, result,
              dlError, error, handlerInvocations, handlerThrown>>
pureVars == <<auth, staging, settings, logger, instance, editor>>
vars == <<saveVars, pureVars, observer>>

NoPath == [dir |-> <<>>, rel |-> <<"none">>]
NoResult == [fileMap |-> {}, failedFiles |-> <<>>, returned |-> FALSE]
NoBody == [rc |-> -1, rm |-> Undefined, isArray |-> FALSE, data |-> <<>>, dataKind |-> "none"]

\* The other parts of the SDK before they are used.
NoSignature == [md5 |-> <<"none">>]
NoOpenEditorParams == [materialId |-> <<>>, userId |-> <<>>, callbackUrl |-> <<>>]
NoVerificationParams ==
    [material_id |-> <<>>, user_id |-> <<>>, callback_url |-> <<>>,
     callback_sign |-> NoSignature]
AuthIdle ==
    [stage |-> "idle", secret |-> <<>>, apiKey |-> <<>>,
     params |-> NoOpenEditorParams, signature |-> NoSignature,
     received |-> NoVerificationParams, accepted |-> FALSE]
StagingIdle == [clock |-> 0, returned |-> <<>>]
Absent == [kind |-> "absent", n |-> 0]
NoOptions == [timeout |-> Absent, downloadConcurrency |-> Absent]
SettingsIdle ==
    [stage |-> "idle", options |-> NoOptions, config |-> NoOptions,
     passed |-> [concurrency |-> Absent, timeout |-> Absent],
     limit |-> Absent, manifestTimeout |-> Absent, fileTimeout |-> Absent]
LoggerIdle ==
    [stage |-> "idle", option |-> "absent", debug |-> "false",
     calls |-> <<>>, console |-> <<>>]
CallbackIds == {1, 2}
InstanceIdle ==
    [ceiling |-> 0, batches |-> [k \in CallbackIds |-> [started |-> FALSE, units |-> <<>>]]]
NoCustomFields == [mobile |-> Undefined, auth_user |-> Undefined]
NoEditorParams ==
    [materialId |-> <<>>, isMobile |-> FALSE, customFields |-> NoCustomFields,
     userId |-> <<>>, callbackUrl |-> <<>>]
NoFormData ==
    [material_id |-> <<>>, user_id |-> <<>>, callback_url |-> <<>>,
     callback_sign |-> NoSignature, custom_fields |-> [json |-> NoCustomFields]]
NoEditorResponse == [rc |-> -1, hasData |-> FALSE, edit_url |-> Undefined]
NoDelivery ==
    [callbackData |-> [download_url |-> <<>>, material_id |-> <<>>, mobile |-> Undefined],
     isMobile |-> FALSE]
EditorIdle ==
    [stage |-> "idle", params |-> NoEditorParams, sent |-> NoFormData,
     response |-> NoEditorResponse, returned |-> Undefined, error |-> NoError,
     delivered |-> NoDelivery]
PureIdle ==
    /\ editor = EditorIdle
    /\ auth = AuthIdle
    /\ staging = StagingIdle
    /\ settings = SettingsIdle
    /\ logger = LoggerIdle
    /\ instance = InstanceIdle

\* What a step of save() leaves alone besides what it names.
Others == UNCHANGED <<handlerThrown, pureVars, observer>>

\* save() has not started on its callback.
SaveFresh ==
    /\ pc = "Received"
    /\ tempDir = NoPath
    /\ dirExists = FALSE
    /\ manifest = "none"
    /\ manifestRequests = 0
    /\ manifestTimer = "unset"
    /\ fileData = NoBody
    /\ fileNames = <<>>
    /\ units = <<>>
    /\ result = NoResult
    /\ dlError = NoError
    /\ error = NoError
    /\ handlerInvocations = <<>>
    /\ handlerThrown = NoError

SaveInit ==
    /\ callbackData \in Callbacks
    /\ concurrency \in 1..MaxConcurrency
    /\ SaveFresh

\* The onlooker, looking or not.
ObserverOff == [on |-> FALSE, inverted |-> FALSE, manifestOverdue |-> FALSE, files |-> {}]
ObserverOn == [ObserverOff EXCEPT !.on = TRUE]

Init == SaveInit /\ PureIdle /\ observer = ObserverOff

\* No callback is being processed: save() is not called while the other
\* parts of the SDK are exercised.
SaveIdle ==
    /\ SaveInit
    /\ callbackData = [download_url |-> DownloadUrl, material_id |-> Art123,
                       mobile |-> Undefined]
    /\ concurrency = 1
    /\ observer = ObserverOff

\* What save() passes to saveHandler.
HandlerParams_OnlySuccess(r) ==
    [fileMap |-> r.fileMap, failedFiles |-> <<>>,
     callbackData |-> EnrichedCallback(callbackData),
     isMobile |-> IsMobile(callbackData)]
HandlerParams(r) ==
    [fileMap |-> r.fileMap, failedFiles |-> r.failedFiles,
     callbackData |-> EnrichedCallback(callbackData),
     isMobile |-> IsMobile(callbackData)]

\* await saveHandler({ fileMap, callbackData, failedFiles, isMobile })
InvokeHandler_SkipEmpty(r) ==
    IF r.fileMap = {} /\ r.failedFiles = <<>>
    THEN handlerInvocations
    ELSE Append(handlerInvocations, HandlerParams(r))
InvokeHandler(r) == Append(handlerInvocations, HandlerParams(r))

\* The catch block of save(): the error is logged and rethrown.
SaveRejects_CallsHandler(e) ==
    /\ pc' = "Handler"
    /\ error' = e
    /\ handlerInvocations' = Append(handlerInvocations, HandlerParams(EmptyResult))
SaveRejects(e) ==
    /\ pc' = "Failed"
    /\ error' = e
    /\ UNCHANGED handlerInvocations

\* The catch block of downloadFiles(): the error is logged and rethrown
\* into save().
DownloadRejects(e) ==
    /\ dlError' = e
    /\ SaveRejects(e)

\* save() is called: it validates the callback, names the staging
\* directory, and downloadFiles issues the manifest request.
SaveCalled ==
    /\ Others
    /\ pc = "Received"
    /\ IF ~IsValidCallback(callbackData)
       THEN /\ pc' = "Failed"
            /\ error' = ValidationError
            /\ UNCHANGED <<tempDir, manifest, manifestRequests, manifestTimer>>
       ELSE /\ \E t \in Timestamps, r \in RandomSuffixes :
                  tempDir' = CreateTempDirectory(
                                 <<"verstka-">> \o callbackData.material_id, t, r)
            /\ manifest' = "requested"
            /\ manifestRequests' = manifestRequests + 1
            /\ manifestTimer' = "armed"
            /\ pc' = "ManifestRequested"
            /\ UNCHANGED error
    /\ UNCHANGED <<callbackData, concurrency, dirExists, fileData, fileNames, units,
                   result, dlError, handlerInvocations>>

\* The manifest response's headers arrive with status s.
ManifestResponse(s) ==
    /\ Others
    /\ pc = "ManifestRequested"
    /\ manifestTimer' = "cleared"
    /\ IF ResponseOk(s)
       THEN /\ pc' = "ManifestBody"
            /\ manifest' = "headers"
            /\ UNCHANGED <<dlError, error, handlerInvocations>>
       ELSE /\ manifest' = "failed"
            /\ DownloadRejects(HttpError(s))
    /\ UNCHANGED <<callbackData, concurrency, tempDir, dirExists, manifestRequests,
                   fileData, fileNames, units, result>>

\* The manifest request fails in the network; its timer stays armed.
ManifestNetworkError ==
    /\ Others
    /\ pc = "ManifestRequested"
    /\ manifest' = "failed"
    /\ DownloadRejects(FetchFailed)
    /\ UNCHANGED <<callbackData, concurrency, tempDir, dirExists, manifestRequests,
                   manifestTimer, fileData, fileNames, units, result>>

\* The manifest timer fires: controller.abort() rejects a pending fetch
\* and does nothing to a finished one.
ManifestTimer ==
    /\ Others
    /\ manifestTimer = "armed"
    /\ manifestTimer' = "fired"
    /\ IF pc = "ManifestRequested"
       THEN /\ manifest' = "failed"
            /\ DownloadRejects(AbortError)
       ELSE UNCHANGED <<pc, manifest, dlError, error, handlerInvocations>>
    /\ UNCHANGED <<callbackData, concurrency, tempDir, dirExists, manifestRequests,
                   fileData, fileNames, units, result>>

\* response.json() rejects: the body is not JSON.
ManifestJsonError ==
    /\ Others
    /\ pc = "ManifestBody"
    /\ manifest' = "failed"
    /\ DownloadRejects(JsonError)
    /\ UNCHANGED <<callbackData, concurrency, tempDir, dirExists, manifestRequests,
                   manifestTimer, fileData, fileNames, units, result>>

\* response.json() resolves with body; the envelope is checked and
\* fs.mkdir is started.
ManifestJson(body) ==
    /\ Others
    /\ pc = "ManifestBody"
    /\ fileData' = body
    /\ IF IsInvalidManifest(body)
       THEN /\ manifest' = "failed"
            /\ DownloadRejects(InvalidResponse(body.rm))
            /\ UNCHANGED fileNames
       ELSE /\ manifest' = "fetched"
            /\ fileNames' = body.data
            /\ pc' = "Mkdir"
            /\ UNCHANGED <<dlError, error, handlerInvocations>>
    /\ UNCHANGED <<callbackData, concurrency, tempDir, dirExists, manifestRequests,
                   manifestTimer, units, result>>

\* fs.mkdir(tempDir, { recursive: true }) resolves: every manifest entry
\* is handed to the p-limit gate.
MkdirDone ==
    /\ Others
    /\ pc = "Mkdir"
    /\ dirExists' = TRUE
    /\ units' = Enqueue([i \in 1..Len(fileNames) |-> QueuedUnit], concurrency)
    /\ pc' = "Downloading"
    /\ UNCHANGED <<callbackData, concurrency, tempDir, manifest, manifestRequests,
                   manifestTimer, fileData, fileNames, result, dlError, error,
                   handlerInvocations>>

\* fs.mkdir rejects.
MkdirFailed_Proceed ==
    /\ Others
    /\ pc = "Mkdir"
    /\ units' = Enqueue([i \in 1..Len(fileNames) |-> QueuedUnit], concurrency)
    /\ pc' = "Downloading"
    /\ UNCHANGED <<callbackData, concurrency, tempDir, dirExists, manifest,
                   manifestRequests, manifestTimer, fileData, fileNames, result,
                   dlError, error, handlerInvocations>>
MkdirFailed ==
    /\ Others
    /\ pc = "Mkdir"
    /\ DownloadRejects(MkdirError)
    /\ UNCHANGED <<callbackData, concurrency, tempDir, dirExists, manifest,
                   manifestRequests, manifestTimer, fileData, fileNames, units, result>>

\* fs.writeFile(filePath, fileBuffer) has resolved for unit i: the file at
\* filePath is the one unit i wrote, whatever was there before.
WriteFile_KeepFirst(files, filePath, i) ==
    IF \E f \in files : f.path = filePath THEN files
    ELSE files \cup {[path |-> filePath, writer |-> i]}
WriteFile_Nothing(files, filePath, i) == files
WriteFile(files, filePath, i) ==
    {f \in files : f.path # filePath} \cup {[path |-> filePath, writer |-> i]}

\* The units that settle in a step from us to vs.
NewlySettled(us, vs) ==
    { i \in DOMAIN us : us[i].phase # "settled" /\ vs[i].phase = "settled" }

\* What the onlooker notes of a step of the units: a unit that settles
\* while a unit listed before it has not, and the file a unit has written.
ObserveUnits(us, vs) ==
    IF ~observer.on THEN observer
    ELSE LET new == NewlySettled(us, vs)
             wrote == { i \in new : vs[i].outcome.status = "fulfilled"
                                     /\ vs[i].outcome.value.success }
         IN  [observer EXCEPT
                 !.inverted = @ \/ \E j \in new : \E i \in 1..(j - 1) :
                                      vs[i].phase # "settled",
                 !.files = IF wrote = {} THEN @
                           ELSE LET i == CHOOSE w \in wrote : TRUE
                                IN  WriteFile(@, vs[i].outcome.value.filePath, i)]

UnitFrame ==
    /\ UNCHANGED <<handlerThrown, pureVars, callbackData, concurrency, pc, tempDir, dirExists, manifest,
                   manifestRequests, manifestTimer, fileData, fileNames, result,
                   dlError, error, handlerInvocations>>
    /\ observer' = ObserveUnits(units, units')

\* The headers of file i arrive with status s: the timer is cleared, and a
\* status that is not ok is thrown and caught.
FileResponse(i, s) ==
    /\ units[i].phase = "fetching"
    /\ LET cleared == [units EXCEPT ![i].timer = "cleared", ![i].status = s]
       IN  units' = IF ResponseOk(s)
                    THEN [cleared EXCEPT ![i].phase = "reading"]
                    ELSE Throw(cleared, i, HttpError(s))
    /\ UnitFrame

\* The request of file i fails in the network; its timer stays armed.
FileNetworkError(i) ==
    /\ units[i].phase = "fetching"
    /\ units' = Throw(units, i, FetchFailed)
    /\ UnitFrame

\* The timer of unit i fires: controller.abort() rejects the unit's
\* pending fetch and does nothing to a finished one.
FileTimer_Late(i) ==
    /\ units[i].timer = "armed"
    /\ units' = Throw([units EXCEPT ![i].timer = "fired", ![i].aborted = TRUE],
                      i, AbortError)
    /\ UnitFrame
FileTimer(i) ==
    /\ units[i].timer = "armed"
    /\ LET fired == [units EXCEPT ![i].timer = "fired"]
       IN  units' = IF units[i].phase = "fetching"
                    THEN Throw([fired EXCEPT ![i].aborted = TRUE, ![i].overdue = TRUE],
                               i, AbortError)
                    ELSE fired
    /\ UnitFrame

\* The timeout elapses for a unit whose timer was cleared when its headers
\* arrived and whose body is still in transfer: nothing in the program runs.
DeadlinePasses(i) ==
    /\ units[i].phase = "reading"
    /\ units[i].timer = "cleared"
    /\ ~units[i].overdue
    /\ units' = [units EXCEPT ![i].overdue = TRUE]
    /\ UnitFrame

\* fileResponse.arrayBuffer() resolves and fs.writeFile is started.
BodyRead(i) ==
    /\ units[i].phase = "reading"
    /\ units' = [units EXCEPT ![i].phase = "writing"]
    /\ UnitFrame

\* fileResponse.arrayBuffer() rejects.
BodyFailed(i) ==
    /\ units[i].phase = "reading"
    /\ units' = Throw(units, i, BodyError)
    /\ UnitFrame

\* fs.writeFile(filePath, fileBuffer) resolves; a path that is the staging
\* directory itself cannot be written.
FileWritten(i) ==
    /\ units[i].phase = "writing"
    /\ PathJoin(tempDir, fileNames[i]) # tempDir
    /\ units' = Settle(units, i, Success(PathJoin(tempDir, fileNames[i])))
    /\ UnitFrame

\* fs.writeFile rejects.
WriteFailed(i) ==
    /\ units[i].phase = "writing"
    /\ units' = Throw(units, i,
                      IF PathJoin(tempDir, fileNames[i]) = tempDir
                      THEN IsDirError ELSE WriteError)
    /\ UnitFrame

\* Promise.allSettled resolves: the outcomes are aggregated, downloadFiles
\* returns, and save() calls the save handler.
Finish ==
    /\ Others
    /\ pc = "Downloading"
    /\ AllSettled(units)
    /\ LET r == ProcessResults(fileNames, units)
       IN  /\ result' = [fileMap |-> r.fileMap, failedFiles |-> r.failedFiles,
                         returned |-> TRUE]
           /\ handlerInvocations' = InvokeHandler(r)
    /\ pc' = "Handler"
    /\ UNCHANGED <<callbackData, concurrency, tempDir, dirExists, manifest,
                   manifestRequests, manifestTimer, fileData, fileNames, units,
                   dlError, error>>

\* The save handler's promise resolves.
HandlerReturns_Restart ==
    /\ Others
    /\ pc = "Handler"
    /\ pc' = "Mkdir"
    /\ UNCHANGED <<callbackData, concurrency, tempDir, dirExists, manifest,
                   manifestRequests, manifestTimer, fileData, fileNames, units,
                   result, dlError, error, handlerInvocations>>
HandlerReturns ==
    /\ Others
    /\ pc = "Handler"
    /\ pc' = "Delivered"
    /\ UNCHANGED <<callbackData, concurrency, tempDir, dirExists, manifest,
                   manifestRequests, manifestTimer, fileData, fileNames, units,
                   result, dlError, error, handlerInvocations>>

\* The errors a save handler raises.
HandlerErrors == {HandlerError}

\* The save handler throws or rejects with e: the await in save() throws
\* e into save()'s catch block.
HandlerRejected_Retry(e) ==
    /\ handlerThrown' = e
    /\ pc' = "Handler"
    /\ handlerInvocations' = Append(handlerInvocations, handlerInvocations[1])
    /\ UNCHANGED error
HandlerRejected(e) ==
    /\ handlerThrown' = e
    /\ SaveRejects(e)

HandlerThrows ==
    /\ pc = "Handler"
    /\ \E e \in HandlerErrors : HandlerRejected(e)
    /\ UNCHANGED <<pureVars, observer, callbackData, concurrency, tempDir, dirExists, manifest,
                   manifestRequests, manifestTimer, fileData, fileNames, units,
                   result, dlError>>

Next ==
    \/ SaveCalled
    \/ \E s \in HttpStatuses : ManifestResponse(s)
    \/ ManifestNetworkError
    \/ ManifestTimer
    \/ ManifestJsonError
    \/ \E body \in ManifestBodies : ManifestJson(body)
    \/ MkdirDone
    \/ MkdirFailed
    \/ \E i \in DOMAIN units, s \in HttpStatuses : FileResponse(i, s)
    \/ \E i \in DOMAIN units : FileNetworkError(i)
    \/ \E i \in DOMAIN units : FileTimer(i)
    \/ \E i \in DOMAIN units : DeadlinePasses(i)
    \/ \E i \in DOMAIN units : BodyRead(i)
    \/ \E i \in DOMAIN units : BodyFailed(i)
    \/ \E i \in DOMAIN units : FileWritten(i)
    \/ \E i \in DOMAIN units : WriteFailed(i)
    \/ Finish
    \/ HandlerReturns
    \/ HandlerThrows

Spec == Init /\ [][Next]_vars

\* ================================================================ VerstkaAuth

\* The secrets and API keys of a configuration, and the values of the
\* signed fields: strings, the empty one included.
Secrets == {<<"s">>, <<"s", "k">>}
ApiKeys == {<<"k">>, <<"k", "1">>}
FieldValues == {EmptyString, <<"1">>, <<"1", "2">>, <<"2">>}

\* null, beside undefined the other missing value.
Null == <<"null">>

\* What join('') makes of one element: undefined and null give the empty
\* string, a string gives itself.
JoinElement_Literal(x) ==
    IF x = Undefined THEN <<"u", "n", "d", "e", "f", "i", "n", "e", "d">>
    ELSE IF x = Null THEN <<"n", "u", "l", "l">>
    ELSE x
JoinElement(x) == IF x = Undefined \/ x = Null THEN EmptyString ELSE x

\* components.join(''): the components one after another, nothing between.
RECURSIVE Join(_)
Join(components) ==
    IF components = <<>> THEN <<>>
    ELSE JoinElement(Head(components)) \o Join(Tail(components))

\* createHash('md5').update(concatenated).digest('hex'), as a hash without
\* collisions: equal digests come from equal inputs only.
Md5Hex(concatenated) == [md5 |-> concatenated]

\* A signature that comes from nowhere.
ForgedSignature == Md5Hex(<<"f", "o", "r", "g", "e", "d">>)

GenerateCallbackSignature(secret, apiKey, params) ==
    Md5Hex(Join(<<secret, apiKey, params.materialId, params.userId, params.callbackUrl>>))

\* The components verifyCallbackSignature hashes.
VerifyComponents_NoUser(secret, apiKey, params) ==
    <<secret, apiKey, params.material_id, params.callback_url>>
VerifyComponents(secret, apiKey, params) ==
    <<secret, apiKey, params.material_id, params.user_id, params.callback_url>>

VerifyCallbackSignature(secret, apiKey, params) ==
    Md5Hex(Join(VerifyComponents(secret, apiKey, params))) = params.callback_sign

\* new VerstkaAuth(config)
AuthConstruct ==
    /\ auth.stage = "idle"
    /\ \E secret \in Secrets, apiKey \in ApiKeys :
          auth' = [auth EXCEPT !.stage = "ready", !.secret = secret, !.apiKey = apiKey]
    /\ UNCHANGED <<saveVars, observer, editor, instance, staging, settings, logger>>

\* generateCallbackSignature(params): the editor is opened with the
\* signature of the three fields.
AuthGenerate ==
    /\ auth.stage = "ready"
    /\ \E m \in FieldValues, u \in FieldValues, c \in FieldValues :
          LET params == [materialId |-> m, userId |-> u, callbackUrl |-> c]
          IN  auth' = [auth EXCEPT
                  !.stage = "signed",
                  !.params = params,
                  !.signature = GenerateCallbackSignature(auth.secret, auth.apiKey, params)]
    /\ UNCHANGED <<saveVars, observer, editor, instance, staging, settings, logger>>

\* The callback the signature was made for, as it was signed.
SignedCallback ==
    [material_id |-> auth.params.materialId, user_id |-> auth.params.userId,
     callback_url |-> auth.params.callbackUrl, callback_sign |-> auth.signature]

\* The callback arrives with the values that were signed.
AuthCallbackArrives ==
    /\ auth.stage = "signed"
    /\ auth' = [auth EXCEPT !.stage = "received", !.received = SignedCallback]
    /\ UNCHANGED <<saveVars, observer, editor, instance, staging, settings, logger>>

\* The callback arrives with one of its fields changed on the way.
AuthCallbackTampered ==
    /\ auth.stage = "signed"
    /\ \/ \E field \in {"material_id", "user_id", "callback_url"} :
          \E value \in FieldValues :
             /\ value # SignedCallback[field]
             /\ auth' = [auth EXCEPT !.stage = "received",
                                     !.received = [SignedCallback EXCEPT ![field] = value]]
       \/ auth' = [auth EXCEPT !.stage = "received",
                               !.received = [SignedCallback EXCEPT
                                                !.callback_sign = ForgedSignature]]
    /\ UNCHANGED <<saveVars, observer, editor, instance, staging, settings, logger>>

\* verifyCallbackSignature(params)
AuthVerify ==
    /\ auth.stage = "received"
    /\ auth' = [auth EXCEPT
            !.stage = "verified",
            !.accepted = VerifyCallbackSignature(auth.secret, auth.apiKey, auth.received)]
    /\ UNCHANGED <<saveVars, observer, editor, instance, staging, settings, logger>>

InitAuth == SaveIdle /\ PureIdle

NextAuth ==
    \/ AuthConstruct
    \/ AuthGenerate
    \/ AuthCallbackArrives
    \/ AuthCallbackTampered
    \/ AuthVerify

SpecAuth == InitAuth /\ [][NextAuth]_vars

\* ------------------------------------------- signatures of any field values
\* The values a signed field has when callers and callbacks are not held to
\* the declared types: missing ones, and strings of which one is the other
\* two put together.
OptionalFieldValues == {Undefined, Null, EmptyString, <<"1">>, <<"1", "2">>, <<"2">>}

\* generateCallbackSignature(params), any of the fields missing.
AuthGenerateAny ==
    /\ auth.stage = "ready"
    /\ \E m \in OptionalFieldValues, u \in OptionalFieldValues, c \in OptionalFieldValues :
          LET params == [materialId |-> m, userId |-> u, callbackUrl |-> c]
          IN  auth' = [auth EXCEPT
                  !.stage = "signed",
                  !.params = params,
                  !.signature = GenerateCallbackSignature(auth.secret, auth.apiKey, params)]
    /\ UNCHANGED <<saveVars, observer, editor, instance, staging, settings, logger>>

\* A callback arrives that carries the signature issued, with whatever
\* values in its signed fields.
AuthCallbackAny ==
    /\ auth.stage = "signed"
    /\ \E m \in OptionalFieldValues, u \in OptionalFieldValues, c \in OptionalFieldValues :
          auth' = [auth EXCEPT
              !.stage = "received",
              !.received = [material_id |-> m, user_id |-> u, callback_url |-> c,
                            callback_sign |-> auth.signature]]
    /\ UNCHANGED <<saveVars, observer, editor, instance, staging, settings, logger>>

NextAuthAny ==
    \/ AuthConstruct
    \/ AuthGenerateAny
    \/ AuthCallbackAny
    \/ AuthVerify

SpecAuthAny == InitAuth /\ [][NextAuthAny]_vars

\* ======================================================= createTempDirectory

\* The number of calls of createTempDirectory and the last reading of the
\* clock, in milliseconds.
MaxCalls == 2
MaxClock == 10

\* The default prefix, and what Math.random().toString(36).substring(2, 8)
\* yields: up to six characters of 0-9 and a-z.
DefaultPrefix == <<"v", "e", "r", "s", "t", "k", "a">>
Base36Suffixes == {<<>>, <<"k">>, <<"3">>, <<"k", "3">>}

\* A number in a template literal: its decimal digits.
Digits == <<"0", "1", "2", "3", "4", "5", "6", "7", "8", "9">>
RECURSIVE Decimal(_)
Decimal(n) ==
    IF n < 10 THEN <<Digits[n + 1]>>
    ELSE Decimal(n \div 10) \o <<Digits[(n % 10) + 1]>>

\* A millisecond passes.
StagingTick ==
    /\ staging.clock < MaxClock
    /\ Len(staging.returned) < MaxCalls
    /\ staging' = [staging EXCEPT !.clock = @ + 1]
    /\ UNCHANGED <<saveVars, observer, editor, instance, auth, settings, logger>>

\* createTempDirectory() is called and returns.
StagingCreate ==
    /\ Len(staging.returned) < MaxCalls
    /\ \E randomSuffix \in Base36Suffixes :
          staging' = [staging EXCEPT !.returned =
              Append(@, [timestamp |-> staging.clock,
                         randomSuffix |-> randomSuffix,
                         path |-> CreateTempDirectory(
                                      DefaultPrefix, Decimal(staging.clock), randomSuffix)])]
    /\ UNCHANGED <<saveVars, observer, editor, instance, auth, settings, logger>>

InitStaging == SaveIdle /\ PureIdle

NextStaging ==
    \/ StagingTick
    \/ StagingCreate

SpecStaging == InitStaging /\ [][NextStaging]_vars

\* =================================================================== options

\* An optional number of an options object: a property that is absent,
\* present with the value undefined, or present with a number.
UndefinedNumber == [kind |-> "undefined", n |-> 0]
Number(n) == [kind |-> "number", n |-> n]

\* The defaults written in the code.
ClientDefaultTimeout == 30000
SaveDefaultConcurrency == 20
SaveDefaultTimeout == 30000
DownloadDefaultConcurrency == 20
DownloadDefaultTimeout == 30000

\* The options an SDK user passes.
TimeoutOptions == {Absent, UndefinedNumber, Number(0), Number(1), Number(5000), Number(30000)}
ConcurrencyOptions == {Absent, UndefinedNumber, Number(0), Number(1), Number(5), Number(20)}

\* { key: default, ...options }: a property of options, whatever its value,
\* replaces the default.
Spread(default, option) == IF option.kind = "absent" THEN default ELSE option

\* value || default: undefined and 0 are falsy.
OrDefault_Always(value, default) == Number(default)
OrDefault(value, default) ==
    IF value.kind # "number" \/ value.n = 0 THEN Number(default) ELSE value

\* const { key = default } = options: the default stands in for undefined.
DestructureDefault(value, default) ==
    IF value.kind # "number" THEN Number(default) ELSE value

\* new VerstkaClient(options)
SettingsConstruct ==
    /\ settings.stage = "idle"
    /\ \E t \in TimeoutOptions, c \in ConcurrencyOptions :
          settings' = [settings EXCEPT
              !.stage = "constructed",
              !.options = [timeout |-> t, downloadConcurrency |-> c],
              !.config = [timeout |-> Spread(Number(ClientDefaultTimeout), t),
                          downloadConcurrency |-> c]]
    /\ UNCHANGED <<saveVars, observer, editor, instance, auth, staging, logger>>

\* save() builds the options it passes to downloadFiles.
SettingsSave ==
    /\ settings.stage = "constructed"
    /\ settings' = [settings EXCEPT
           !.stage = "saving",
           !.passed = [concurrency |-> OrDefault(settings.config.downloadConcurrency,
                                                 SaveDefaultConcurrency),
                       timeout |-> OrDefault(settings.config.timeout, SaveDefaultTimeout)]]
    /\ UNCHANGED <<saveVars, observer, editor, instance, auth, staging, logger>>

\* downloadFiles reads its options, arms the timer of the manifest request
\* and makes the limiter.
SettingsDownloadFiles ==
    /\ settings.stage = "saving"
    /\ settings' = [settings EXCEPT
           !.stage = "manifest",
           !.manifestTimeout = DestructureDefault(settings.passed.timeout,
                                                  DownloadDefaultTimeout),
           !.limit = DestructureDefault(settings.passed.concurrency,
                                        DownloadDefaultConcurrency)]
    /\ UNCHANGED <<saveVars, observer, editor, instance, auth, staging, logger>>

\* downloadSingleFile arms the timer of a file request with the timeout
\* downloadFiles hands it.
SettingsDownloadSingleFile ==
    /\ settings.stage = "manifest"
    /\ settings' = [settings EXCEPT
           !.stage = "files",
           !.fileTimeout = settings.manifestTimeout]
    /\ UNCHANGED <<saveVars, observer, editor, instance, auth, staging, logger>>

InitSettings == SaveIdle /\ PureIdle

NextSettings ==
    \/ SettingsConstruct
    \/ SettingsSave
    \/ SettingsDownloadFiles
    \/ SettingsDownloadSingleFile

SpecSettings == InitSettings /\ [][NextSettings]_vars

\* ============================================================== VerstkaLogger

\* The number of logger calls.
MaxLogCalls == 3

\* The debug option an SDK user passes: left out, undefined, false or true.
DebugOptions == {"absent", "undefined", "false", "true"}
Messages == {"Download URL", "Processing callback"}

\* { debug: false, ...options }
ConfigDebug(option) == IF option = "absent" THEN "false" ELSE option

\* if (this.config.debug)
ShouldLogDebug_Always(debug) == TRUE
ShouldLogDebug(debug) == debug = "true"

\* The private log method: one console call with the prefix, the icon of
\* the level and the arguments.
Log(level, message) ==
    [method |-> CASE level = "warn" -> "console.warn"
                  [] level = "error" -> "console.error"
                  [] OTHER -> "console.log",
     prefix |-> "[Verstka]",
     icon |-> CASE level = "debug" -> "magnifier"
                [] level = "info" -> "memo"
                [] level = "warn" -> "warning"
                [] OTHER -> "cross",
     message |-> message]

\* A call of logger.<level>(message) is made and returns.
Called(level, message, emits) ==
    /\ logger.stage = "created"
    /\ Len(logger.calls) < MaxLogCalls
    /\ logger' = [logger EXCEPT
           !.calls = Append(@, [level |-> level, message |-> message]),
           !.console = IF emits THEN Append(@, Log(level, message)) ELSE @]
    /\ UNCHANGED <<saveVars, observer, editor, instance, auth, staging, settings>>

\* new VerstkaClient(options) makes the logger with config.debug.
LoggerCreate ==
    /\ logger.stage = "idle"
    /\ \E option \in DebugOptions :
          logger' = [logger EXCEPT !.stage = "created", !.option = option,
                                   !.debug = ConfigDebug(option)]
    /\ UNCHANGED <<saveVars, observer, editor, instance, auth, staging, settings>>

LoggerDebug == \E message \in Messages : Called("debug", message, ShouldLogDebug(logger.debug))
LoggerInfo == \E message \in Messages : Called("info", message, TRUE)
LoggerWarn == \E message \in Messages : Called("warn", message, TRUE)
LoggerError == \E message \in Messages : Called("error", message, TRUE)

InitLogger == SaveIdle /\ PureIdle

NextLogger ==
    \/ LoggerCreate
    \/ LoggerDebug
    \/ LoggerInfo
    \/ LoggerWarn
    \/ LoggerError

SpecLogger == InitLogger /\ [][NextLogger]_vars

\* ====================================================== one callback, watched

\* The timeout elapses for a manifest request whose timer was cleared when
\* its headers arrived and whose body is still in transfer: nothing in the
\* program runs.
ManifestDeadlinePasses ==
    /\ observer.on
    /\ pc = "ManifestBody"
    /\ manifestTimer = "cleared"
    /\ ~observer.manifestOverdue
    /\ observer' = [observer EXCEPT !.manifestOverdue = TRUE]
    /\ UNCHANGED <<saveVars, pureVars>>

\* One callback for a desktop material, with the onlooker looking.
InitObserved ==
    /\ SaveInit
    /\ callbackData = [download_url |-> DownloadUrl, material_id |-> Art123,
                       mobile |-> Undefined]
    /\ PureIdle
    /\ observer = ObserverOn

SpecObserved == InitObserved /\ [][Next]_vars

\* The same with the clock of the manifest request watched as well.
NextDeadline ==
    \/ Next
    \/ ManifestDeadlinePasses

SpecDeadline == InitObserved /\ [][NextDeadline]_vars

\* ================================================ callbacks with a signature

\* The secret and API key of the SDK instance, the user and the callback
\* URL the editor was opened with.
ConfiguredSecret == <<"s">>
ConfiguredApiKey == <<"k">>
UserId == <<"1">>
CallbackUrl == <<"2">>

\* callback_sign as Verstka computes it for a callback.
SignatureFor(material_id) ==
    GenerateCallbackSignature(
        ConfiguredSecret, ConfiguredApiKey,
        [materialId |-> material_id, userId |-> UserId, callbackUrl |-> CallbackUrl])

\* A callback as Verstka sends it, and one whose callback_sign was not
\* made with the secret.
GenuineCallback ==
    [download_url |-> DownloadUrl, material_id |-> Art123, mobile |-> Undefined,
     user_id |-> UserId, callback_sign |-> SignatureFor(Art123)]
ForgedCallback == [GenuineCallback EXCEPT !.callback_sign = ForgedSignature]
\* The callback of the mobile variant of the same material.
GenuineMobileCallback ==
    [GenuineCallback EXCEPT !.material_id = Mart123,
                            !.callback_sign = SignatureFor(Mart123)]

\* Whether verifyCallbackSignature accepts the callback.
CallbackVerifies(cb) ==
    VerifyCallbackSignature(
        ConfiguredSecret, ConfiguredApiKey,
        [material_id |-> cb.material_id, user_id |-> cb.user_id,
         callback_url |-> CallbackUrl, callback_sign |-> cb.callback_sign])

InitSigned ==
    /\ callbackData \in {GenuineCallback, ForgedCallback, GenuineMobileCallback}
    /\ concurrency = 1
    /\ SaveFresh
    /\ PureIdle
    /\ observer = ObserverOff

SpecSigned == InitSigned /\ [][Next]_vars

\* ============================================= one callback, with its runtime

\* What the runtime and the local machine guarantee: save() gets to run, a
\* timer that is armed fires, mkdir and writeFile complete one way or the
\* other, a settled batch is aggregated, and the handler ends. Nothing is
\* promised of the remote peer: headers and bodies may never arrive.
RuntimeFairness ==
    /\ WF_vars(SaveCalled)
    /\ WF_vars(ManifestTimer)
    /\ WF_vars(MkdirDone \/ MkdirFailed)
    /\ WF_vars(\E i \in DOMAIN units : FileTimer(i))
    /\ WF_vars(\E i \in DOMAIN units : FileWritten(i) \/ WriteFailed(i))
    /\ WF_vars(Finish)
    /\ WF_vars(HandlerReturns \/ HandlerThrows)

SpecLive == InitObserved /\ [][NextDeadline]_vars /\ RuntimeFairness

\* ========================================== several callbacks, one instance

\* The staging path of callback k.
BatchDir(k) == CreateTempDirectory(DefaultPrefix, Decimal(k), <<"k">>)

\* new VerstkaClient({ downloadConcurrency }): the ceiling every save() of
\* the instance hands to downloadFiles.
InstanceConstruct ==
    /\ instance.ceiling = 0
    /\ \E c \in 1..MaxConcurrency : instance' = [instance EXCEPT !.ceiling = c]
    /\ UNCHANGED <<saveVars, observer, editor, auth, staging, settings, logger>>

\* downloadFiles of callback k has its manifest of n files: it makes its
\* own limiter, pLimit(concurrency), and hands it every file.
BatchStarts(k) ==
    /\ instance.ceiling > 0
    /\ ~instance.batches[k].started
    /\ \E n \in 1..MaxFiles :
          instance' = [instance EXCEPT
              !.batches[k] = [started |-> TRUE,
                              units |-> Enqueue([i \in 1..n |-> QueuedUnit],
                                                instance.ceiling)]]
    /\ UNCHANGED <<saveVars, observer, editor, auth, staging, settings, logger>>

\* The request of file i of callback k ends, well or badly, and that
\* callback's limiter moves on.
BatchUnitSettles(k, i) ==
    /\ instance.batches[k].units[i].phase = "fetching"
    /\ \E ok \in BOOLEAN :
          instance' = [instance EXCEPT
              !.batches[k].units =
                  IF ok THEN Settle(@, i, Success(PathJoin(BatchDir(k), NameList[i])))
                  ELSE Throw(@, i, FetchFailed)]
    /\ UNCHANGED <<saveVars, observer, editor, auth, staging, settings, logger>>

InitInstance == SaveIdle /\ PureIdle

NextInstance ==
    \/ InstanceConstruct
    \/ \E k \in CallbackIds : BatchStarts(k)
    \/ \E k \in CallbackIds : \E i \in DOMAIN instance.batches[k].units :
          BatchUnitSettles(k, i)

SpecInstance == InitInstance /\ [][NextInstance]_vars

\* =============================================================== getEditorUrl

\* The material ids, the caller's customFields (a missing object spreads
\* like an empty one) and the bodies the /open endpoint answers with: rc,
\* whether data is present, and data.edit_url.
EditorMaterialIds == {Art123, Mart123, MMart}
CustomFieldsInputs ==
    { [mobile |-> m, auth_user |-> a] :
        m \in {Undefined, <<"M">>, EmptyString}, a \in {Undefined, <<"x">>} }
EditUrl == <<"https://verstka.org/edit/1">>
EditorResponses ==
    { [rc |-> rc, hasData |-> TRUE, edit_url |-> e] :
        rc \in {0, 1}, e \in {EditUrl, EmptyString, Undefined} }
    \cup { [rc |-> rc, hasData |-> FALSE, edit_url |-> Undefined] : rc \in {0, 1} }
RequestFailed == <<"Request failed with status code 500">>

\* isMobile ? (materialId.startsWith('M') ? materialId : `M${materialId}`)
\*          : materialId
PrefixedMaterialId(materialId, isMobile) ==
    IF isMobile
    THEN IF StartsWithM(materialId) THEN materialId ELSE <<"M">> \o materialId
    ELSE materialId

\* { ...customFields, mobile: isMobile ? 'M' : '' }
FinalCustomFields_CallerWins(customFields, isMobile) ==
    IF customFields.mobile # Undefined THEN customFields
    ELSE [customFields EXCEPT !.mobile = IF isMobile THEN <<"M">> ELSE EmptyString]
FinalCustomFields(customFields, isMobile) ==
    [customFields EXCEPT !.mobile = IF isMobile THEN <<"M">> ELSE EmptyString]

\* { ...baseParams, materialId, customFields: finalCustomFields }
EditorParams_Unprefixed(params) ==
    [materialId |-> params.materialId,
     userId |-> params.userId, callbackUrl |-> params.callbackUrl,
     customFields |-> FinalCustomFields(params.customFields, params.isMobile)]
EditorParams(params) ==
    [materialId |-> PrefixedMaterialId(params.materialId, params.isMobile),
     userId |-> params.userId, callbackUrl |-> params.callbackUrl,
     customFields |-> FinalCustomFields(params.customFields, params.isMobile)]

\* JSON.stringify of an object and JSON.parse of the text: keys whose value
\* is undefined are not written.
JsonStringify(object) == [json |-> object]
JsonParse(text) == text.json

\* The fields of the form posted to /open that the callback hands back or
\* the signature covers.
FormData(params) ==
    [material_id |-> PrefixedMaterialId(params.materialId, params.isMobile),
     user_id |-> params.userId,
     callback_url |-> params.callbackUrl,
     callback_sign |-> GenerateCallbackSignature(ConfiguredSecret, ConfiguredApiKey,
                                                 EditorParams(params)),
     custom_fields |-> JsonStringify(FinalCustomFields(params.customFields,
                                                       params.isMobile))]

\* response.data?.data?.edit_url || ''
ReturnedUrl(body) ==
    IF body.hasData /\ ~Falsy(body.edit_url) THEN body.edit_url ELSE EmptyString

\* getEditorUrl(params) up to its await: the form is posted to /open.
EditorRequested ==
    /\ editor.stage = "idle"
    /\ \E materialId \in EditorMaterialIds, isMobile \in BOOLEAN,
          customFields \in CustomFieldsInputs :
          LET params == [materialId |-> materialId, isMobile |-> isMobile,
                         customFields |-> customFields,
                         userId |-> UserId, callbackUrl |-> CallbackUrl]
          IN  editor' = [editor EXCEPT !.stage = "requested", !.params = params,
                                       !.sent = FormData(params)]
    /\ UNCHANGED <<saveVars, observer, instance, auth, staging, settings, logger>>

\* The post resolves with a response whose body is `body`: getEditorUrl
\* returns.
EditorResponds(body) ==
    /\ editor.stage = "requested"
    /\ editor' = [editor EXCEPT !.stage = "returned", !.response = body,
                                !.returned = ReturnedUrl(body)]
    /\ UNCHANGED <<saveVars, observer, instance, auth, staging, settings, logger>>

\* The post rejects (a status outside 2xx, the network): getEditorUrl
\* rejects with the same error.
EditorRequestFails ==
    /\ editor.stage = "requested"
    /\ editor' = [editor EXCEPT !.stage = "failed", !.error = RequestFailed]
    /\ UNCHANGED <<saveVars, observer, instance, auth, staging, settings, logger>>

\* The callback of the session comes back with the material_id and the
\* custom_fields that were sent, and save() works out what it hands to the
\* save handler.
EditorCallbackSaved ==
    /\ editor.stage = "returned"
    /\ LET cb == [download_url |-> DownloadUrl,
                  material_id |-> editor.sent.material_id,
                  mobile |-> JsonParse(editor.sent.custom_fields).mobile]
       IN  editor' = [editor EXCEPT
               !.stage = "saved",
               !.delivered = [callbackData |-> EnrichedCallback(cb),
                              isMobile |-> IsMobile(cb)]]
    /\ UNCHANGED <<saveVars, observer, instance, auth, staging, settings, logger>>

InitEditor == SaveIdle /\ PureIdle

NextEditor ==
    \/ EditorRequested
    \/ \E body \in EditorResponses : EditorResponds(body)
    \/ EditorRequestFails
    \/ EditorCallbackSaved

SpecEditor == InitEditor /\ [][NextEditor]_vars

\* ================================================ manifests with path names
\* Manifests whose names hold '..' or separators, as the remote side is
\* free to list them.
PathManifests ==
    { <<"a.png", "../b.png">>, <<"sub/../c.png", "/d.png">>,
      <<"../b.png", "a.png", "/d.png">> }

\* downloadFiles has received such a manifest and is about to create the
\* staging directory.
InitPaths ==
    /\ callbackData = [download_url |-> DownloadUrl, material_id |-> Art123,
                       mobile |-> Undefined]
    /\ concurrency = 1
    /\ pc = "Mkdir"
    /\ \E t \in Timestamps, r \in RandomSuffixes :
          tempDir = CreateTempDirectory(<<"verstka-">> \o Art123, t, r)
    /\ dirExists = FALSE
    /\ manifest = "fetched"
    /\ manifestRequests = 1
    /\ manifestTimer = "cleared"
    /\ fileNames \in PathManifests
    /\ fileData = [rc |-> 1, rm |-> <<"ok">>, isArray |-> TRUE, data |-> fileNames,
                   dataKind |-> "array"]
    /\ units = <<>>
    /\ result = NoResult
    /\ dlError = NoError
    /\ error = NoError
    /\ handlerInvocations = <<>>
    /\ handlerThrown = NoError
    /\ PureIdle
    /\ observer = ObserverOn

NextPaths ==
    \/ MkdirDone
    \/ MkdirFailed
    \/ \E i \in DOMAIN units, s \in HttpStatuses : FileResponse(i, s)
    \/ \E i \in DOMAIN units : FileNetworkError(i)
    \/ \E i \in DOMAIN units : FileTimer(i)
    \/ \E i \in DOMAIN units : DeadlinePasses(i)
    \/ \E i \in DOMAIN units : BodyRead(i)
    \/ \E i \in DOMAIN units : BodyFailed(i)
    \/ \E i \in DOMAIN units : FileWritten(i)
    \/ \E i \in DOMAIN units : WriteFailed(i)
    \/ Finish
    \/ HandlerReturns
    \/ HandlerThrows

SpecPaths == InitPaths /\ [][NextPaths]_vars

\* ================================================================== claims

\* Helpers of the claims' formulas.
InFlight == { i \in DOMAIN units : units[i].phase \in {"fetching", "reading", "writing"} }
Waiting == { i \in DOMAIN units : units[i].phase = "queued" }
Settled == { i \in DOMAIN units : units[i].phase = "settled" }
Succeeded ==
    { i \in Settled : units[i].outcome.status = "fulfilled" /\ units[i].outcome.value.success }
Failed == Settled \ Succeeded
InFileMap(n) == \E e \in result.fileMap : e.fileName = n
InFailedFiles(n) == \E k \in DOMAIN result.failedFiles : result.failedFiles[k].fileName = n
Partitioned ==
    /\ Cardinality(result.fileMap) + Len(result.failedFiles) = Len(fileNames)
    /\ \A i \in DOMAIN fileNames : InFileMap(fileNames[i]) # InFailedFiles(fileNames[i])
DistinctNonEmpty(names) ==
    /\ \A i \in DOMAIN names : names[i] # ""
    /\ \A i, j \in DOMAIN names : i # j => names[i] # names[j]

\* C1: at every instant the number of file requests started and not yet
\* settled is at most the concurrency limit, also when the limit is below
\* the manifest length.
C1_ConcurrencyCeiling == Cardinality(InFlight) <= concurrency
\* The ceiling is reached while entries are still queued.
C1_Witness == Cardinality(InFlight) = concurrency /\ Waiting # {} /\ concurrency >= 2

\* C2 as stated: for every manifest, size(fileMap) + length(failedFiles) is
\* the manifest length and every name is in exactly one of the two.
C2_Original == result.returned => Partitioned
\* C2 as amended: the same for every manifest whose names are non-empty and
\* pairwise distinct.
C2_PartitionOfDistinctNames ==
    (result.returned /\ DistinctNonEmpty(fileNames)) => Partitioned
\* A batch of distinct names returned with successes and failures.
C2_Witness ==
    /\ result.returned
    /\ DistinctNonEmpty(fileNames)
    /\ Len(fileNames) = MaxFiles
    /\ result.fileMap # {}
    /\ result.failedFiles # <<>>

\* C3: an error thrown inside a file unit becomes that unit's failure
\* outcome carrying the error's message; the unit never rejects, a request
\* is aborted by its own timer only, and downloadFiles does not reject
\* once units have failed.
C3_FailureStaysInUnit ==
    /\ \A i \in DOMAIN units :
          /\ units[i].outcome.status # "rejected"
          /\ units[i].thrown # NoError =>
                /\ units[i].phase = "settled"
                /\ units[i].outcome =
                       [status |-> "fulfilled",
                        value |-> [success |-> FALSE, error |-> units[i].thrown]]
          /\ units[i].aborted => units[i].timer = "fired" /\ units[i].thrown = AbortError
    /\ (\E i \in DOMAIN units : units[i].thrown # NoError) => dlError = NoError
\* A unit has failed while a sibling is still in flight, and the batch is
\* later delivered with a sibling's success.
C3_Witness ==
    \/ /\ pc = "Downloading"
       /\ \E i, j \in DOMAIN units :
             /\ units[i].thrown = HttpError("404")
             /\ units[j].phase = "reading"
             /\ j < i
    \/ /\ pc = "Delivered"
       /\ \E i, j \in DOMAIN units : i \in Failed /\ j \in Succeeded /\ units[i].aborted

\* C4 as stated: a file whose transfer is not complete when the timeout
\* has elapsed has a failure entry, and only a unit whose timeout elapsed
\* is aborted.
C4_Original ==
    \A i \in DOMAIN units :
        /\ units[i].overdue =>
              /\ units[i].phase = "settled"
              /\ units[i].outcome.status = "fulfilled"
              /\ ~units[i].outcome.value.success
        /\ units[i].aborted => units[i].overdue

\* C5: downloadFiles has returned (and the handler has been called) only
\* in states where every file unit of the manifest has settled.
C5_ReturnsAfterAllSettled ==
    (result.returned \/ handlerInvocations # <<>>) =>
        /\ Len(units) = Len(fileNames)
        /\ \A i \in DOMAIN units : units[i].phase = "settled"
\* A full batch returned with both successes and failures.
C5_Witness ==
    /\ result.returned
    /\ Len(units) = MaxFiles
    /\ Succeeded # {}
    /\ Failed # {}

\* C6: while an entry is queued, exactly concurrency units are in flight:
\* a settled unit's slot is handed on at once.
C6_WorkConserving == Waiting # {} => Cardinality(InFlight) = concurrency
\* A queued entry was started after one unit settled while a unit of the
\* first admission is still in flight.
C6_Witness ==
    \E i, j, k \in DOMAIN units :
        /\ i \in Settled
        /\ j <= concurrency /\ j \in InFlight
        /\ k > concurrency /\ k \in InFlight

\* C7: a manifest body whose rc is not 1 or whose data is missing or not an
\* array makes downloadFiles raise "Invalid response: " followed by the
\* body's rm ("Unknown error" when rm is absent or empty); no file request
\* is issued and the staging directory is not created.
C7_InvalidManifestRaises ==
    (fileData.dataKind # "none" /\ (fileData.rc # 1 \/ fileData.dataKind # "array")) =>
        /\ pc = "Failed"
        /\ dlError # NoError
        /\ Head(dlError) = "Invalid response: "
        /\ Tail(dlError) =
               (IF fileData.rm \in {Undefined, EmptyString}
                THEN <<"Unknown error">> ELSE fileData.rm)
        /\ units = <<>>
        /\ ~dirExists
\* The manifest endpoint answered rc: 0, rm: "session expired" with a list.
C7_Witness ==
    /\ fileData.rc = 0
    /\ fileData.dataKind = "array"
    /\ Len(fileData.data) > 0
    /\ dlError = <<"Invalid response: ", "session expired">>

\* C8: when the manifest fetch has failed, save() has rejected with the
\* error downloadFiles raised, no file unit exists and the save handler
\* has not been called.
C8_ManifestFailureShortCircuits ==
    manifest = "failed" =>
        /\ pc = "Failed"
        /\ error # NoError
        /\ error = dlError
        /\ units = <<>>
        /\ handlerInvocations = <<>>
\* The manifest request was aborted by its timer.
C8_Witness == manifest = "failed" /\ pc = "Failed" /\ error = AbortError

\* C9: a callback without download_url or without material_id makes save()
\* raise, with no staging path allocated, no manifest or file request
\* issued and the handler not called.
C9_InvalidCallbackRejected ==
    ( /\ pc # "Received"
      /\ \/ callbackData.download_url \in {Undefined, EmptyString}
         \/ callbackData.material_id \in {Undefined, EmptyString} ) =>
        /\ pc = "Failed"
        /\ error = ValidationError
        /\ tempDir = NoPath
        /\ ~dirExists
        /\ manifestRequests = 0
        /\ units = <<>>
        /\ handlerInvocations = <<>>
\* save() has rejected a callback whose material_id is empty.
C9_Witness ==
    /\ pc = "Failed"
    /\ callbackData.material_id = EmptyString
    /\ callbackData.download_url = DownloadUrl

\* C10: the handler receives isMobile = (custom_fields.mobile is 'M' or
\* material_id starts with 'M') and the material_id without one leading
\* 'M'; "Mart123" is delivered as "art123" with isMobile true.
C10_VariantDelivered ==
    \A k \in DOMAIN handlerInvocations :
        LET given == callbackData.material_id
            got == handlerInvocations[k]
            prefixed == given # <<>> /\ Head(given) = "M"
        IN  /\ got.isMobile = (callbackData.mobile = <<"M">> \/ prefixed)
            /\ IF prefixed
               THEN <<"M">> \o got.callbackData.material_id = given
               ELSE got.callbackData.material_id = given
            /\ given = Mart123 =>
                  got.isMobile /\ got.callbackData.material_id = Art123
\* The handler was called for "Mart123", and for a desktop material.
C10_Witness ==
    /\ handlerInvocations # <<>>
    /\ callbackData.material_id \in {Mart123, MMart}
    /\ callbackData.mobile = Undefined

\* C11: the save handler is invoked at most once for a callback, and once
\* save() has ended after a successful validation and manifest fetch it has
\* been invoked exactly once.
C11_Original ==
    /\ Len(handlerInvocations) <= 1
    /\ (pc \in {"Delivered", "Failed"} /\ manifest = "fetched") =>
           Len(handlerInvocations) = 1
\* C11 as amended: at most once, and exactly once when the staging
\* directory was created as well, whatever the manifest (the empty one
\* included) and whatever each file's outcome.
C11_HandlerInvokedOnce ==
    /\ Len(handlerInvocations) <= 1
    /\ (pc \in {"Handler", "Delivered", "Failed"} /\ manifest = "fetched" /\ dirExists) =>
           Len(handlerInvocations) = 1
\* save() has delivered an empty manifest to the handler.
C11_Witness ==
    /\ pc = "Delivered"
    /\ fileNames = <<>>
    /\ manifest = "fetched"
    /\ Len(handlerInvocations) = 1

\* C12: files that failed do not make save() reject: the handler is
\* invoked, with the fileMap and the failedFiles downloadFiles returned,
\* and save() rejects afterwards only with what the handler raised.
C12_PartialFailureDelivered ==
    /\ \A k \in DOMAIN handlerInvocations :
          /\ result.returned
          /\ handlerInvocations[k].fileMap = result.fileMap
          /\ handlerInvocations[k].failedFiles = result.failedFiles
    /\ (Failed # {} /\ pc \in {"Handler", "Delivered", "Failed"}) =>
          /\ dlError = NoError
          /\ Len(handlerInvocations) = 1
          /\ pc = "Failed" => (handlerThrown # NoError /\ error = handlerThrown)
\* Every file of a full batch failed and the handler returned normally.
C12_Witness ==
    /\ pc = "Delivered"
    /\ Len(fileNames) = MaxFiles
    /\ Cardinality(Failed) = MaxFiles
    /\ result.fileMap = {}
    /\ Len(handlerInvocations[1].failedFiles) = MaxFiles

\* C13: once the handler has raised, save() has rejected with that very
\* error, the handler has been invoked once, and the manifest and every
\* file have been requested once, none of them again.
C13_HandlerErrorPropagates ==
    handlerThrown # NoError =>
        /\ pc = "Failed"
        /\ error = handlerThrown
        /\ dlError = NoError
        /\ Len(handlerInvocations) = 1
        /\ manifestRequests = 1
        /\ \A i \in DOMAIN units : units[i].phase = "settled" /\ units[i].requests = 1
\* The handler raised after a batch of files was downloaded.
C13_Witness ==
    /\ handlerThrown = HandlerError
    /\ pc = "Failed"
    /\ Len(units) = MaxFiles
    /\ Succeeded # {}

\* C15: one callback issues one manifest request, none when the callback
\* is rejected by validation, and one request for each manifest entry that
\* was started; a unit that failed is not requested again.
C15_NoRetries ==
    /\ manifestRequests <= 1
    /\ manifest # "none" => manifestRequests = 1
    /\ Len(units) \in {0, Len(fileNames)}
    /\ \A i \in DOMAIN units :
          /\ units[i].requests <= 1
          /\ units[i].phase # "queued" => units[i].requests = 1
          /\ units[i].phase = "queued" => units[i].requests = 0
\* Every file of a full batch has settled, some of them as failures.
C15_Witness ==
    /\ pc = "Delivered"
    /\ Len(units) = MaxFiles
    /\ Failed # {}
    /\ \A i \in DOMAIN units : units[i].requests = 1

\* C17: once createTempDirectory has returned a path, the directory
\* exists.
C17_Original == tempDir # NoPath => dirExists

\* C18: a file answered with a non-2xx status S and status text T is in
\* failedFiles with the message "HTTP S: T" and not in fileMap, and a file
\* that succeeded is in fileMap under the path it was written to.
C18_Original ==
    result.returned =>
        \A i \in DOMAIN units :
            /\ (units[i].status # "none" /\ ~ResponseOk(units[i].status)) =>
                  /\ \E k \in DOMAIN result.failedFiles :
                        result.failedFiles[k] =
                            [fileName |-> fileNames[i],
                             error |-> <<"HTTP ", units[i].status, ": ",
                                         StatusText(units[i].status)>>]
                  /\ ~InFileMap(fileNames[i])
            /\ i \in Succeeded =>
                  [fileName |-> fileNames[i],
                   filePath |-> PathJoin(tempDir, fileNames[i])] \in result.fileMap
\* C18 as amended: the same for every manifest whose names are non-empty
\* and pairwise distinct.
C18_HttpFailureRecorded ==
    DistinctNonEmpty(fileNames) => C18_Original
\* Manifest [a.png, b.png, c.png] with limit 2, c.png answered 404.
C18_Witness ==
    /\ result.returned
    /\ fileNames = <<"a.png", "b.png", "c.png">>
    /\ concurrency = 2
    /\ result.failedFiles =
           <<[fileName |-> "c.png", error |-> <<"HTTP ", "404", ": ", "Not Found">>]>>
    /\ result.fileMap =
           {[fileName |-> n, filePath |-> PathJoin(tempDir, n)] : n \in {"a.png", "b.png"}}

\* C14: verifyCallbackSignature accepts a callback that carries the digest
\* generateCallbackSignature made of the same field values, and rejects it
\* when exactly one of material_id, user_id, callback_url and
\* callback_sign differs from what was signed.
C14_SignatureRoundTrip ==
    auth.stage = "verified" =>
        LET differing ==
                { f \in {"material_id", "user_id", "callback_url", "callback_sign"} :
                    auth.received[f] # SignedCallback[f] }
        IN  /\ differing = {} => auth.accepted
            /\ Cardinality(differing) = 1 => ~auth.accepted
\* A callback was accepted as signed, with a non-empty user_id.
C14_Witness ==
    /\ auth.stage = "verified"
    /\ auth.accepted
    /\ auth.received.user_id = <<"1", "2">>
    /\ auth.received.material_id = <<"1">>

C19_Original ==
    settings.stage = "files" =>
        /\ settings.options.downloadConcurrency.kind # "number" =>
               settings.limit = Number(20)
        /\ settings.options.timeout.kind # "number" =>
               settings.manifestTimeout = Number(30000) /\ settings.fileTimeout = Number(30000)
        /\ settings.options.downloadConcurrency.kind = "number" =>
               settings.limit = settings.options.downloadConcurrency
        /\ settings.options.timeout.kind = "number" =>
               /\ settings.manifestTimeout = settings.options.timeout
               /\ settings.fileTimeout = settings.options.timeout
\* C19 as amended: the defaults as above, a configured number other than 0
\* is the one used, and a configured 0 gives the default.
C19_DefaultsAndNonZeroValues ==
    settings.stage = "files" =>
        LET c == settings.options.downloadConcurrency
            t == settings.options.timeout
            unsetC == c.kind # "number" \/ c.n = 0
            unsetT == t.kind # "number" \/ t.n = 0
        IN  /\ settings.limit = IF unsetC THEN Number(20) ELSE c
            /\ settings.manifestTimeout = IF unsetT THEN Number(30000) ELSE t
            /\ settings.fileTimeout = IF unsetT THEN Number(30000) ELSE t
\* A timeout of 5000 ms was configured and downloadConcurrency was not.
C19_Witness ==
    /\ settings.stage = "files"
    /\ settings.options.timeout = Number(5000)
    /\ settings.options.downloadConcurrency = Absent
    /\ settings.limit = Number(20)
    /\ settings.fileTimeout = Number(5000)

\* C20: the console shows, in the order of the calls, every info, warn and
\* error message whatever the debug option, and the debug messages exactly
\* when the debug option is true.
C20_DebugOnlyInDebugMode ==
    LET shown(c) == c.level # "debug" \/ logger.option = "true"
        expected == SelectSeq(logger.calls, shown)
        icons == [debug |-> "magnifier", info |-> "memo", warn |-> "warning",
                  error |-> "cross"]
    IN  /\ Len(logger.console) = Len(expected)
        /\ \A k \in DOMAIN logger.console :
              /\ logger.console[k].icon = icons[expected[k].level]
              /\ logger.console[k].message = expected[k].message
\* Without the debug option a debug call showed nothing and the info call
\* after it was shown.
C20_Witness ==
    /\ logger.option = "absent"
    /\ Len(logger.calls) = 2
    /\ logger.calls[1].level = "debug"
    /\ logger.calls[2].level = "info"
    /\ Len(logger.console) = 1
    /\ logger.console[1].icon = "memo"

\* The stage of the spec's state machine a position of save() belongs to,
\* by its rank: Received, Validated (the manifest is being fetched),
\* ManifestFetched (the staging directory is being made), Downloading (to
\* the end of the handler's run), Delivered, Failed.
StageRank(p) ==
    CASE p = "Received" -> 1
      [] p \in {"ManifestRequested", "ManifestBody"} -> 2
      [] p = "Mkdir" -> 3
      [] p \in {"Downloading", "Handler"} -> 4
      [] p = "Delivered" -> 5
      [] OTHER -> 6

\* C21: every step of save() stays in its stage, moves to the next stage,
\* or moves to Failed; Delivered and Failed are not left; and the save
\* handler is invoked only in the Downloading stage, by the step in which
\* downloadFiles returns with every unit settled.
C21_ForwardOnly ==
    [][/\ pc \in {"Delivered", "Failed"} => pc' = pc
       /\ \/ StageRank(pc') = StageRank(pc)
          \/ StageRank(pc') = StageRank(pc) + 1
          \/ pc' = "Failed"
       /\ handlerInvocations' # handlerInvocations =>
             /\ pc = "Downloading"
             /\ \A i \in DOMAIN units : units[i].phase = "settled"
             /\ ~result.returned /\ result'.returned]_vars
\* save() has delivered a full batch.
C21_Witness ==
    /\ observer.on
    /\ pc = "Delivered"
    /\ Len(units) = MaxFiles
    /\ result.returned

\* C22: for a callback whose callback_sign is not the digest of secret,
\* API key, material_id, user_id and callback URL, save() issues no
\* manifest request, downloads no file and does not invoke the handler.
C22_Original ==
    ~CallbackVerifies(callbackData) =>
        /\ manifestRequests = 0
        /\ units = <<>>
        /\ handlerInvocations = <<>>

\* C23: whatever the remote peer does, every file unit eventually settles
\* and downloadFiles eventually returns or raises.
C23_Original ==
    <>(/\ result.returned \/ dlError # NoError \/ pc = "Failed"
       /\ \A i \in DOMAIN units : units[i].phase = "settled")

\* C24: once the timeout has elapsed with the manifest request not
\* complete, the request has been aborted, downloadFiles has raised, no
\* file request was issued and the manifest was requested once.
C24_Original ==
    (observer.manifestOverdue \/ manifestTimer = "fired") =>
        /\ manifest = "failed"
        /\ dlError # NoError
        /\ pc = "Failed"
        /\ units = <<>>
        /\ manifestRequests = 1

\* The positions in the manifest of the entries that failed and have a
\* name the aggregation keeps, in increasing order.
FailedPositions ==
    SelectSeq([i \in DOMAIN fileNames |-> i],
              LAMBDA i : i \in Failed /\ fileNames[i] # "")

\* C25: the names in failedFiles are the names of the failed manifest
\* entries in the order of the manifest, also when the units settled in
\* another order.
C25_FailuresInManifestOrder ==
    result.returned =>
        /\ Len(result.failedFiles) = Len(FailedPositions)
        /\ \A k \in DOMAIN result.failedFiles :
              result.failedFiles[k].fileName = fileNames[FailedPositions[k]]
\* Every file of a batch failed, and one of them settled while a file
\* listed before it had not.
C25_Witness ==
    /\ result.returned
    /\ observer.inverted
    /\ Len(fileNames) >= 2
    /\ DistinctNonEmpty(fileNames)
    /\ Len(result.failedFiles) = Len(fileNames)

\* C26: the result of downloadFiles is a function of the manifest and of
\* what became of each file's request alone: the files whose request and
\* write went through are in fileMap under their paths, the others are in
\* failedFiles with their errors, in manifest order, whatever the
\* concurrency limit and the order in which the units ran and settled.
C26_ResultIndependentOfSchedule ==
    result.returned =>
        /\ result.fileMap =
               { [fileName |-> fileNames[i], filePath |-> PathJoin(tempDir, fileNames[i])] :
                   i \in { j \in DOMAIN fileNames :
                             units[j].thrown = NoError /\ fileNames[j] # "" } }
        /\ result.failedFiles =
               [k \in 1..Len(FailedPositions) |->
                   [fileName |-> fileNames[FailedPositions[k]],
                    error |-> units[FailedPositions[k]].thrown]]
\* A full batch run two at a time, with a unit settling before one listed
\* earlier, returned successes and failures.
C26_Witness ==
    /\ result.returned
    /\ observer.inverted
    /\ concurrency = 2
    /\ Len(fileNames) = MaxFiles
    /\ result.fileMap # {}
    /\ result.failedFiles # <<>>

\* The file requests of callback k that are outstanding.
Outstanding(k) ==
    { i \in DOMAIN instance.batches[k].units :
        instance.batches[k].units[i].phase \in {"fetching", "reading", "writing"} }
RECURSIVE TotalOutstanding(_)
TotalOutstanding(ks) ==
    IF ks = {} THEN 0
    ELSE LET k == CHOOSE x \in ks : TRUE
         IN  Cardinality(Outstanding(k)) + TotalOutstanding(ks \ {k})

\* C27: the file requests outstanding over all the callbacks an instance
\* is processing are never more than the configured ceiling.
C27_Original ==
    instance.ceiling > 0 => TotalOutstanding(CallbackIds) <= instance.ceiling
\* C27 as amended: the file requests outstanding for each callback are
\* never more than the ceiling, so over the callbacks in progress never
\* more than the ceiling times their number.
C27_CeilingPerCallback ==
    /\ \A k \in CallbackIds : Cardinality(Outstanding(k)) <= instance.ceiling
    /\ TotalOutstanding(CallbackIds) <= instance.ceiling * Cardinality(CallbackIds)
\* Two callbacks are both at the ceiling with files waiting.
C27_Witness ==
    /\ instance.ceiling >= 2
    /\ \A k \in CallbackIds :
          /\ Cardinality(Outstanding(k)) = instance.ceiling
          /\ \E i \in DOMAIN instance.batches[k].units :
                instance.batches[k].units[i].phase = "queued"

\* The files the onlooker finds at a path.
FilesAt(filePath) == { f \in observer.files : f.path = filePath }

\* C28: when a name is listed twice, each occurrence is requested once and
\* written to the one path of that name, no error comes of it, the file
\* found there is the one written last, and fileMap has one entry for the
\* name.
C28_DuplicateNamesOverwrite ==
    result.returned =>
        \A i, j \in DOMAIN fileNames :
            (i < j /\ fileNames[i] = fileNames[j] /\ fileNames[i] # "") =>
                LET name == fileNames[i]
                    filePath == PathJoin(tempDir, name)
                    wrote == { k \in {i, j} : k \in Succeeded }
                IN  /\ units[i].requests = 1 /\ units[j].requests = 1
                    /\ dlError = NoError
                    /\ \A k \in wrote : units[k].outcome.value.filePath = filePath
                    /\ { e \in result.fileMap : e.fileName = name } =
                           IF wrote = {} THEN {}
                           ELSE {[fileName |-> name, filePath |-> filePath]}
                    /\ Cardinality(FilesAt(filePath)) = IF wrote = {} THEN 0 ELSE 1
                    /\ \A f \in FilesAt(filePath) : f.writer \in wrote
                    /\ (wrote = {i, j} /\ Len(fileNames) = 2) =>
                           \A f \in FilesAt(filePath) :
                               f.writer = IF observer.inverted THEN i ELSE j
\* Both occurrences of a name were written, the first one last.
C28_Witness ==
    /\ result.returned
    /\ Len(fileNames) = 2
    /\ fileNames[1] = fileNames[2]
    /\ Succeeded = {1, 2}
    /\ observer.inverted
    /\ Cardinality(result.fileMap) = 1

\* C29: the staging directory exists only once a valid manifest has been
\* fetched, and no file unit is made, no file is requested and no file is
\* written while it does not exist.
C29_DirectoryBeforeDownloads ==
    /\ dirExists =>
          /\ manifest = "fetched"
          /\ fileData.rc = 1 /\ fileData.isArray
          /\ Len(units) = Len(fileNames)
    /\ ~dirExists =>
          /\ units = <<>>
          /\ observer.files = {}
    /\ \A i \in DOMAIN units : units[i].requests > 0 => dirExists
\* The directory exists, the first requests are out and others wait.
C29_Witness ==
    /\ dirExists
    /\ pc = "Downloading"
    /\ \E i \in DOMAIN units : units[i].phase = "fetching"
    /\ \E i \in DOMAIN units : units[i].phase = "queued"
    /\ observer.files = {}

\* C30: whatever became of save(), the staging directory and every file a
\* successful unit wrote are still there, at the path the unit reported
\* and fileMap records.
C30_NothingDeleted ==
    /\ \A i \in Succeeded :
          /\ dirExists
          /\ FilesAt(units[i].outcome.value.filePath) # {}
    /\ \A e \in result.fileMap : FilesAt(e.filePath) # {}
    /\ \A k \in DOMAIN handlerInvocations :
          \A e \in handlerInvocations[k].fileMap : FilesAt(e.filePath) # {}
\* save() has ended with the handler's error after a batch with written
\* and with failed files.
C30_Witness ==
    /\ pc = "Failed"
    /\ handlerThrown # NoError
    /\ Succeeded # {}
    /\ Failed # {}
    /\ Cardinality(observer.files) >= 2

\* A signed field as the digest takes it: a missing one as the empty string.
MissingAsEmpty(x) == IF x \in {Undefined, Null} THEN EmptyString ELSE x

\* C32: generateCallbackSignature and verifyCallbackSignature always return
\* a value and change nothing of the VerstkaAuth object: the digest is
\* that of secret, API key and the three fields one after another with a
\* missing (undefined or null) field taken as the empty string, so it is a
\* function of the inputs alone; verifying accepts exactly when that digest
\* of the received fields is the signature received.
C32_MissingFieldsSignAsEmpty ==
    /\ [](auth.stage \in {"signed", "received", "verified"} =>
            auth.signature =
                [md5 |-> auth.secret \o auth.apiKey
                           \o MissingAsEmpty(auth.params.materialId)
                           \o MissingAsEmpty(auth.params.userId)
                           \o MissingAsEmpty(auth.params.callbackUrl)])
    /\ [](auth.stage = "verified" =>
            auth.accepted =
                (auth.received.callback_sign =
                    [md5 |-> auth.secret \o auth.apiKey
                               \o MissingAsEmpty(auth.received.material_id)
                               \o MissingAsEmpty(auth.received.user_id)
                               \o MissingAsEmpty(auth.received.callback_url)]))
    /\ [][auth.stage \in {"ready", "signed", "received"} =>
            /\ auth'.secret = auth.secret
            /\ auth'.apiKey = auth.apiKey
            /\ auth'.stage # "idle"
            /\ auth.stage # "ready" =>
                  auth'.signature = auth.signature /\ auth'.params = auth.params]_vars
\* A signature made without a user id was accepted for a callback whose
\* user_id is the empty string.
C32_Witness ==
    /\ auth.stage = "verified"
    /\ auth.params.userId = Undefined
    /\ auth.params.materialId = <<"1">>
    /\ auth.received.user_id = EmptyString
    /\ auth.received.material_id = <<"1">>
    /\ auth.accepted

\* C34: a signature issued for one tuple of strings (material_id, user_id,
\* callback_url) is not accepted for a different tuple of strings.
C34_Original ==
    ( /\ auth.stage = "verified"
      /\ \A v \in {auth.params.materialId, auth.params.userId, auth.params.callbackUrl,
                   auth.received.material_id, auth.received.user_id,
                   auth.received.callback_url} : v \notin {Undefined, Null}
      /\ <<auth.received.material_id, auth.received.user_id, auth.received.callback_url>>
            # <<auth.params.materialId, auth.params.userId, auth.params.callbackUrl>> )
        => ~auth.accepted

\* C31: the callback_sign getEditorUrl sends is the digest of secret, API
\* key, material_id, user_id and callback_url in that order, taken over the
\* material_id (with the 'M' of the mobile variant), user_id and
\* callback_url of the same form, so verifyCallbackSignature accepts the
\* values sent.
C31_SignatureCoversSentValues ==
    editor.stage # "idle" =>
        /\ editor.sent.callback_sign =
              [md5 |-> ConfiguredSecret \o ConfiguredApiKey \o editor.sent.material_id
                         \o editor.sent.user_id \o editor.sent.callback_url]
        /\ VerifyCallbackSignature(
              ConfiguredSecret, ConfiguredApiKey,
              [material_id |-> editor.sent.material_id, user_id |-> editor.sent.user_id,
               callback_url |-> editor.sent.callback_url,
               callback_sign |-> editor.sent.callback_sign])
\* The mobile editor was requested for an id without prefix: the form
\* carries the prefixed id.
C31_Witness ==
    /\ editor.stage = "requested"
    /\ editor.params.isMobile
    /\ editor.params.materialId = Art123
    /\ editor.sent.material_id = Mart123

\* C33: for every materialId and isMobile, the callback that carries the
\* material_id and custom_fields getEditorUrl sent makes save() deliver the
\* original materialId and the original isMobile.
C33_Original ==
    editor.stage = "saved" =>
        /\ editor.delivered.callbackData.material_id = editor.params.materialId
        /\ editor.delivered.isMobile = editor.params.isMobile
\* C33 as amended: the round trip holds for every materialId that does not
\* start with 'M'.
C33_RoundTripOfUnprefixedIds ==
    (editor.stage = "saved" /\ Head(editor.params.materialId) # "M") =>
        /\ editor.delivered.callbackData.material_id = editor.params.materialId
        /\ editor.delivered.isMobile = editor.params.isMobile
\* The mobile variant of an unprefixed id went out and came back.
C33_Witness ==
    /\ editor.stage = "saved"
    /\ editor.params.materialId = Art123
    /\ editor.params.isMobile
    /\ editor.sent.material_id = Mart123
    /\ editor.delivered.isMobile
    /\ editor.delivered.callbackData.material_id = Art123

\* C37: getEditorUrl sends custom_fields.mobile = 'M' when isMobile and ''
\* otherwise whatever the caller's customFields say, keeps the caller's
\* other custom fields, and sends the material_id with an 'M' put in front
\* only for the mobile variant of an id that does not start with 'M'.
C37_VariantEncoding ==
    editor.stage # "idle" =>
        LET sentFields == editor.sent.custom_fields.json
        IN  /\ sentFields.mobile = (IF editor.params.isMobile THEN <<"M">> ELSE EmptyString)
            /\ sentFields.auth_user = editor.params.customFields.auth_user
            /\ editor.sent.material_id =
                  (IF editor.params.isMobile /\ Head(editor.params.materialId) # "M"
                   THEN <<"M">> \o editor.params.materialId
                   ELSE editor.params.materialId)
\* The desktop editor was requested by a caller whose customFields say
\* mobile 'M'.
C37_Witness ==
    /\ editor.stage = "requested"
    /\ ~editor.params.isMobile
    /\ editor.params.customFields.mobile = <<"M">>
    /\ editor.sent.custom_fields.json.mobile = EmptyString
    /\ editor.params.materialId = Art123
    /\ editor.sent.material_id = Art123

\* C38: getEditorUrl returns the edit_url of a response with rc = 1, and
\* returns no empty or missing URL: a response with another rc or
\* without edit_url is an error.
C38_Original ==
    editor.stage \in {"returned", "saved"} =>
        /\ editor.response.rc = 1
        /\ editor.response.hasData
        /\ editor.returned = editor.response.edit_url
        /\ editor.returned \notin {EmptyString, Undefined}

\* The path lies inside the staging directory.
InsideStaging(path) ==
    /\ path.dir = tempDir.dir
    /\ path.dir # <<>>
    /\ path.rel # <<>>
    /\ \A k \in DOMAIN path.rel : path.rel[k] # ".."

\* C35: every path recorded in fileMap and every path a file unit writes
\* to lies inside the batch's staging directory, whatever names the
\* manifest lists.
C35_Original ==
    /\ \A e \in result.fileMap : InsideStaging(e.filePath)
    /\ \A f \in observer.files : InsideStaging(f.path)

\* C36: the callbackData handed to the save handler has the fields of the
\* callback save() was called with and, material_id aside, their values;
\* and save() leaves the callback it was given as it was.
C36_OtherFieldsUntouched ==
    /\ [](\A k \in DOMAIN handlerInvocations :
            LET delivered == handlerInvocations[k].callbackData
            IN  /\ DOMAIN delivered = DOMAIN callbackData
                /\ \A f \in DOMAIN callbackData \ {"material_id"} :
                      delivered[f] = callbackData[f])
    /\ [][callbackData' = callbackData]_vars
\* The handler was called for the mobile callback: material_id came
\* without its prefix, user_id and callback_sign as they were, and the
\* callback still has its prefix.
C36_Witness ==
    /\ Len(handlerInvocations) = 1
    /\ callbackData = GenuineMobileCallback
    /\ handlerInvocations[1].callbackData.material_id = Art123
    /\ handlerInvocations[1].callbackData.user_id = UserId
    /\ handlerInvocations[1].callbackData.callback_sign = SignatureFor(Mart123)

\* The timer of unit i fires in this step, after the unit has settled.
StaleTimerFires(i) ==
    /\ units[i].phase = "settled"
    /\ units[i].timer = "armed"
    /\ units'[i].timer = "fired"

\* C39: a unit has an outcome exactly when it has settled, and a settled
\* unit keeps its outcome; a timer left armed by a request that failed
\* changes, when it fires after its unit has settled, no unit's outcome or
\* progress, nothing of the result and nothing handed to the save handler.
C39_OutcomeSettledOnce ==
    /\ [](\A i \in DOMAIN units :
            (units[i].phase = "settled") = (units[i].outcome # Pending))
    /\ [][\A i \in DOMAIN units :
            /\ units[i].phase = "settled" =>
                  /\ i \in DOMAIN units'
                  /\ units'[i].phase = "settled"
                  /\ units'[i].outcome = units[i].outcome
            /\ StaleTimerFires(i) =>
                  /\ units' = [units EXCEPT ![i].timer = "fired"]
                  /\ result' = result
                  /\ handlerInvocations' = handlerInvocations
                  /\ pc' = pc]_vars
\* The request of a unit failed in the network, the unit settled as
\* failed, and its timer fired afterwards while another unit was being
\* fetched.
C39_Witness ==
    \E i, j \in DOMAIN units :
        /\ units[i].phase = "settled"
        /\ units[i].timer = "fired"
        /\ units[i].thrown = FetchFailed
        /\ units[i].outcome.status = "fulfilled"
        /\ units[i].outcome.value.error = FetchFailed
        /\ units[j].phase = "fetching"

====
